---------------------------- MODULE Spec2Model ----------------------------
(***************************************************************************)
(* A model of juce::Line<ValueType> (juce_Line.h) with the helpers of      *)
(* juce_MathsFunctions.h it uses, for ValueType = float / double, the      *)
(* types the class is written for (specification Spec), of                 *)
(* juce::MemoryBlock (juce_MemoryBlock.cpp) (specifications SpecMB, and    *)
(* SpecBits for its bit ranges and base64 strings), and of the array scans *)
(* findMinimum, findMaximum and findMinAndMax (specification SpecScan).    *)
(*                                                                         *)
(* Numbers.  A ValueType value is an exact rational [n, d] in lowest terms *)
(* with d > 0, or one of the three IEEE-754 specials, encoded with d = 0:  *)
(* [1, 0] = +infinity, [-1, 0] = -infinity, [0, 0] = NaN.  The arithmetic  *)
(* is the IEEE one without rounding: x / 0 is an infinity, 0 / 0 and       *)
(* 0 * infinity are NaN, and every comparison with NaN is false.  The sign *)
(* of a zero is not kept: a zero divisor counts as +0.                     *)
(* A square root (juce_hypot, Point::getDistanceFrom) is kept exactly, as  *)
(* the non-negative root of a rational: [sq |-> q] stands for sqrt(q).     *)
(***************************************************************************)
EXTENDS Integers, Sequences, FiniteSets

(***************************************************************************)
(* Bounds of the model.                                                    *)
(***************************************************************************)
MaxCoord == 2      \* grid points have coordinates in 0 .. MaxCoord
MaxDist == 2       \* distances along a line are drawn from -1 .. MaxDist
MaxSize == 3       \* a MemoryBlock holds at most MaxSize bytes
MaxLen == 3        \* an array given to the scans has at most MaxLen values
MaxValue == 2      \* the values of an array are drawn from -1 .. MaxValue

(***************************************************************************)
(* ValueType arithmetic.                                                   *)
(***************************************************************************)
Abs(i) == IF i < 0 THEN -i ELSE i

Sign(i) == IF i < 0 THEN -1 ELSE IF i > 0 THEN 1 ELSE 0

RECURSIVE GCD(_, _)
GCD(a, b) == IF b = 0 THEN a ELSE GCD(b, a % b)

\* the value n / d (d >= 0) in lowest terms; d = 0 gives a special
Norm(n, d) ==
    IF d = 0 THEN [n |-> Sign(n), d |-> 0]
    ELSE LET g == GCD(Abs(n), d) IN [n |-> n \div g, d |-> d \div g]

R(i) == [n |-> i, d |-> 1]

Zero == R(0)

One == R(1)

Two == R(2)

NaN == [n |-> 0, d |-> 0]

IsNaN(a) == a.d = 0 /\ a.n = 0

IsFinite(a) == a.d > 0

Neg(a) == [n |-> -a.n, d |-> a.d]

Add(a, b) ==
    IF a.d = 0 /\ b.d = 0
    THEN (IF a.n = b.n THEN a ELSE NaN)           \* inf + inf, inf - inf, NaN
    ELSE Norm(a.n * b.d + b.n * a.d, a.d * b.d)

Sub(a, b) == Add(a, Neg(b))

Mul(a, b) == Norm(a.n * b.n, a.d * b.d)

\* a / b; a zero divisor counts as +0, so x / 0 is the infinity with the
\* sign of x, and 0 / 0 is NaN
Div(a, b) ==
    IF b.n = 0 /\ b.d > 0
    THEN Norm(a.n, 0)
    ELSE Norm(a.n * b.d * Sign(b.n), a.d * Abs(b.n))

Eq(a, b) == ~IsNaN(a) /\ ~IsNaN(b) /\ a = b

Lt(a, b) ==
    /\ ~IsNaN(a)
    /\ ~IsNaN(b)
    /\ IF a.d = 0 /\ b.d = 0 THEN a.n < b.n ELSE a.n * b.d < b.n * a.d

Gt(a, b) == Lt(b, a)

Le(a, b) == Lt(a, b) \/ Eq(a, b)

Ge(a, b) == Le(b, a)

\* sqrt(q), kept exactly
Root(q) == [sq |-> q]

IsSquare(i) == \E r \in 0 .. i : r * r = i

ISqrt(i) == CHOOSE r \in 0 .. i : r * r = i

\* whether sqrt(q) is a rational number
IsRationalRoot(s) == IsFinite(s.sq) /\ s.sq.n >= 0 /\ IsSquare(s.sq.n) /\ IsSquare(s.sq.d)

\* the rational value of sqrt(q), for the roots that have one
RootValue(s) == [n |-> ISqrt(s.sq.n), d |-> ISqrt(s.sq.d)]

RootLt(a, b) == Lt(a.sq, b.sq)

(***************************************************************************)
(* juce_MathsFunctions.h                                                   *)
(***************************************************************************)
jmin(a, b) == IF Lt(b, a) THEN b ELSE a

jmax(a, b) == IF Lt(a, b) THEN b ELSE a

jlimit_unclamped(lowerLimit, upperLimit, valueToConstrain) == valueToConstrain

jlimit(lowerLimit, upperLimit, valueToConstrain) ==
    IF Lt(valueToConstrain, lowerLimit) THEN lowerLimit
    ELSE IF Lt(upperLimit, valueToConstrain) THEN upperLimit
    ELSE valueToConstrain

\* hypot (a, b): the root of a * a + b * b, and +infinity when either
\* argument is an infinity, also when the other one is NaN
juce_hypot(a, b) ==
    IF (a.d = 0 /\ a.n # 0) \/ (b.d = 0 /\ b.n # 0)
    THEN Root([n |-> 1, d |-> 0])
    ELSE Root(Add(Mul(a, a), Mul(b, b)))

\* findMinimum, for Type = int: Type() is 0; data[i] is the i-th value
RECURSIVE findMinimumFrom(_, _, _, _)
findMinimumFrom(data, n, i, result) ==
    IF i > n THEN result
    ELSE findMinimumFrom(data, n, i + 1, IF data[i] < result THEN data[i] ELSE result)

findMinimum(data, n) ==
    IF n <= 0 THEN 0 ELSE findMinimumFrom(data, n, 2, data[1])

RECURSIVE findMaximumFrom(_, _, _, _)
findMaximumFrom(data, n, i, result) ==
    IF i > n THEN result
    ELSE findMaximumFrom(data, n, i + 1, IF result > data[i] THEN data[i] ELSE result)

findMaximum(data, n) ==
    IF n <= 0 THEN 0 ELSE findMaximumFrom(data, n, 2, data[1])

RECURSIVE findMinAndMaxFrom(_, _, _, _, _)
findMinAndMaxFrom(data, n, i, mn, mx) ==
    IF i > n THEN [lowest |-> mn, highest |-> mx]
    ELSE findMinAndMaxFrom(data, n, i + 1,
                           IF data[i] < mn THEN data[i] ELSE mn,
                           IF mx < data[i] THEN data[i] ELSE mx)

findMinAndMax(data, n) ==
    IF n <= 0 THEN [lowest |-> 0, highest |-> 0]
    ELSE findMinAndMaxFrom(data, n, 2, data[1], data[1])

(***************************************************************************)
(* Point<ValueType>: a pair of coordinates, compared component-wise.       *)
(***************************************************************************)
Point(x, y) == [x |-> x, y |-> y]

Pt(i, j) == Point(R(i), R(j))

PointEq(a, b) == Eq(a.x, b.x) /\ Eq(a.y, b.y)

PointAdd(a, b) == Point(Add(a.x, b.x), Add(a.y, b.y))

PointSub(a, b) == Point(Sub(a.x, b.x), Sub(a.y, b.y))

PointMul(a, k) == Point(Mul(a.x, k), Mul(a.y, k))

PointDiv(a, k) == Point(Div(a.x, k), Div(a.y, k))

isOrigin(a) == Eq(a.x, Zero) /\ Eq(a.y, Zero)

withX(a, newX) == Point(newX, a.y)

withY(a, newY) == Point(a.x, newY)

\* AffineTransform: the six coefficients of the matrix
AffineTransform(mat00, mat01, mat02, mat10, mat11, mat12) ==
    [mat00 |-> mat00, mat01 |-> mat01, mat02 |-> mat02,
     mat10 |-> mat10, mat11 |-> mat11, mat12 |-> mat12]

\* Point::applyTransform: AffineTransform::transformPoint on x and y
PointApplyTransform(a, transform) ==
    Point(Add(Add(Mul(transform.mat00, a.x), Mul(transform.mat01, a.y)), transform.mat02),
          Add(Add(Mul(transform.mat10, a.x), Mul(transform.mat11, a.y)), transform.mat12))

getDistanceFrom(a, b) == juce_hypot(Sub(a.x, b.x), Sub(a.y, b.y))

IsFinitePoint(a) == IsFinite(a.x) /\ IsFinite(a.y)

Line(a, b) == [start |-> a, end |-> b]


(***************************************************************************)
(* Line<ValueType>::findIntersection (private, static).  The caller's      *)
(* point comes in as `intersection`; the record returned holds the         *)
(* boolean returned and the value of `intersection` on return.             *)
(***************************************************************************)
\* lines 360-392 with the fallback point p2 in place of the midpoint
findIntersectionParallel_endpoint(p1, p2, p3, p4, d1, d2, intersection) ==
    [result |-> FALSE, intersection |-> p2]

\* lines 360-392 with the fallback assignment of line 390 left out
findIntersectionParallel_unassigned(p1, p2, p3, p4, d1, d2, intersection) ==
    [result |-> FALSE, intersection |-> intersection]

\* lines 360-392 without the isOrigin test of line 362
findIntersectionParallel_noOriginTest(p1, p2, p3, p4, d1, d2, intersection) ==
    IF Eq(d1.y, Zero) /\ ~Eq(d2.y, Zero)
    THEN LET along == Div(Sub(p1.y, p3.y), d2.y)
         IN [result |-> Ge(along, Zero) /\ Le(along, One),
             intersection |-> withX(p1, Add(p3.x, Mul(along, d2.x)))]
    ELSE IF Eq(d2.y, Zero) /\ ~Eq(d1.y, Zero)
    THEN LET along == Div(Sub(p3.y, p1.y), d1.y)
         IN [result |-> Ge(along, Zero) /\ Le(along, One),
             intersection |-> withX(p3, Add(p1.x, Mul(along, d1.x)))]
    ELSE IF Eq(d1.x, Zero) /\ ~Eq(d2.x, Zero)
    THEN LET along == Div(Sub(p1.x, p3.x), d2.x)
         IN [result |-> Ge(along, Zero) /\ Le(along, One),
             intersection |-> withY(p1, Add(p3.y, Mul(along, d2.y)))]
    ELSE IF Eq(d2.x, Zero) /\ ~Eq(d1.x, Zero)
    THEN LET along == Div(Sub(p3.x, p1.x), d1.x)
         IN [result |-> Ge(along, Zero) /\ Le(along, One),
             intersection |-> withY(p3, Add(p1.y, Mul(along, d1.y)))]
    ELSE [result |-> FALSE, intersection |-> PointDiv(PointAdd(p2, p3), Two)]

\* the divisor == 0 branch
findIntersectionParallel(p1, p2, p3, p4, d1, d2, intersection) ==
    IF ~(isOrigin(d1) \/ isOrigin(d2)) /\ Eq(d1.y, Zero) /\ ~Eq(d2.y, Zero)
    THEN LET along == Div(Sub(p1.y, p3.y), d2.y)
         IN [result |-> Ge(along, Zero) /\ Le(along, One),
             intersection |-> withX(p1, Add(p3.x, Mul(along, d2.x)))]
    ELSE IF ~(isOrigin(d1) \/ isOrigin(d2)) /\ Eq(d2.y, Zero) /\ ~Eq(d1.y, Zero)
    THEN LET along == Div(Sub(p3.y, p1.y), d1.y)
         IN [result |-> Ge(along, Zero) /\ Le(along, One),
             intersection |-> withX(p3, Add(p1.x, Mul(along, d1.x)))]
    ELSE IF ~(isOrigin(d1) \/ isOrigin(d2)) /\ Eq(d1.x, Zero) /\ ~Eq(d2.x, Zero)
    THEN LET along == Div(Sub(p1.x, p3.x), d2.x)
         IN [result |-> Ge(along, Zero) /\ Le(along, One),
             intersection |-> withY(p1, Add(p3.y, Mul(along, d2.y)))]
    ELSE IF ~(isOrigin(d1) \/ isOrigin(d2)) /\ Eq(d2.x, Zero) /\ ~Eq(d1.x, Zero)
    THEN LET along == Div(Sub(p3.x, p1.x), d1.x)
         IN [result |-> Ge(along, Zero) /\ Le(along, One),
             intersection |-> withY(p3, Add(p1.y, Mul(along, d1.y)))]
    ELSE [result |-> FALSE, intersection |-> PointDiv(PointAdd(p2, p3), Two)]

\* lines 394-401 with the test of along2 left out
findIntersectionGeneral_along1Only(p1, p3, d1, d2, divisor, intersection) ==
    LET along1 == Div(Sub(Mul(Sub(p1.y, p3.y), d2.x), Mul(Sub(p1.x, p3.x), d2.y)), divisor)
    IN [result |-> ~(Lt(along1, Zero) \/ Gt(along1, One)),
        intersection |-> PointAdd(p1, PointMul(d1, along1))]

\* the divisor != 0 branch
findIntersectionGeneral(p1, p3, d1, d2, divisor, intersection) ==
    LET along1 == Div(Sub(Mul(Sub(p1.y, p3.y), d2.x), Mul(Sub(p1.x, p3.x), d2.y)), divisor)
        along2 == Div(Sub(Mul(Sub(p1.y, p3.y), d1.x), Mul(Sub(p1.x, p3.x), d1.y)), divisor)
    IN [result |-> IF Lt(along1, Zero) \/ Gt(along1, One)
                   THEN FALSE
                   ELSE Ge(along2, Zero) /\ Le(along2, One),
        intersection |-> PointAdd(p1, PointMul(d1, along1))]

\* the part of findIntersection after the p2 == p3 test
findIntersectionSolve(p1, p2, p3, p4, intersection) ==
    LET d1 == PointSub(p2, p1)
        d2 == PointSub(p4, p3)
        divisor == Sub(Mul(d1.x, d2.y), Mul(d2.x, d1.y))
    IN IF Eq(divisor, Zero)
       THEN findIntersectionParallel(p1, p2, p3, p4, d1, d2, intersection)
       ELSE findIntersectionGeneral(p1, p3, d1, d2, divisor, intersection)

\* findIntersection with the p2 == p3 test of lines 350-354 left out
findIntersection_noSharedTest(p1, p2, p3, p4, intersection) ==
    findIntersectionSolve(p1, p2, p3, p4, intersection)

findIntersection(p1, p2, p3, p4, intersection) ==
    IF PointEq(p2, p3)
    THEN [result |-> TRUE, intersection |-> p2]
    ELSE findIntersectionSolve(p1, p2, p3, p4, intersection)

(***************************************************************************)
(* The public methods of Line, as functions of the receiver (start, end)   *)
(* and the arguments.                                                      *)
(***************************************************************************)
getLength(s, e) == getDistanceFrom(s, e)

intersects(s, e, other, intersection) ==
    findIntersection(s, e, other.start, other.end, intersection)

\* Point<ValueType> p; is the point (0, 0)
getIntersection(s, e, other) ==
    findIntersection(s, e, other.start, other.end, Pt(0, 0)).intersection

getPointAlongLine(s, e, distanceFromStart) ==
    PointAdd(s, PointMul(PointSub(e, s), Div(distanceFromStart, RootValue(getLength(s, e)))))

\* the two-argument overload without the length <= 0 test of lines 214-215
getPointAlongLine2_unguarded(s, e, distanceFromStart, perpendicularDistance) ==
    LET delta == PointSub(e, s)
        length == RootValue(juce_hypot(delta.x, delta.y))
    IN Point(Add(s.x, Div(Sub(Mul(delta.x, distanceFromStart),
                              Mul(delta.y, perpendicularDistance)), length)),
             Add(s.y, Div(Add(Mul(delta.y, distanceFromStart),
                              Mul(delta.x, perpendicularDistance)), length)))

\* the two-argument overload
getPointAlongLine2(s, e, distanceFromStart, perpendicularDistance) ==
    LET delta == PointSub(e, s)
        length == RootValue(juce_hypot(delta.x, delta.y))
    IN IF Le(length, Zero)
       THEN s
       ELSE Point(Add(s.x, Div(Sub(Mul(delta.x, distanceFromStart),
                                   Mul(delta.y, perpendicularDistance)), length)),
                  Add(s.y, Div(Add(Mul(delta.y, distanceFromStart),
                                   Mul(delta.x, perpendicularDistance)), length)))

\* getPointAlongLineProportionally keeping the proportion within [0, 1]
getPointAlongLineProportionally_clamped(s, e, proportionOfLength) ==
    PointAdd(s, PointMul(PointSub(e, s), jlimit(Zero, One, proportionOfLength)))

getPointAlongLineProportionally(s, e, proportionOfLength) ==
    PointAdd(s, PointMul(PointSub(e, s), proportionOfLength))

\* lines 265-277 with the comparison the wrong way round
getDistanceFromPointEnds_farther(s, e, targetPoint) ==
    LET fromStart == getDistanceFrom(targetPoint, s)
        fromEnd == getDistanceFrom(targetPoint, e)
    IN IF RootLt(fromEnd, fromStart)
       THEN [distance |-> fromStart, pointOnLine |-> s]
       ELSE [distance |-> fromEnd, pointOnLine |-> e]

\* the end of getDistanceFromPoint: the nearer of the two end points
getDistanceFromPointEnds(s, e, targetPoint) ==
    LET fromStart == getDistanceFrom(targetPoint, s)
        fromEnd == getDistanceFrom(targetPoint, e)
    IN IF RootLt(fromStart, fromEnd)
       THEN [distance |-> fromStart, pointOnLine |-> s]
       ELSE [distance |-> fromEnd, pointOnLine |-> e]

\* getDistanceFromPoint returning, at line 261, the distance from start
getDistanceFromPoint_fromStart(s, e, targetPoint) ==
    LET delta == PointSub(e, s)
        length == Add(Mul(delta.x, delta.x), Mul(delta.y, delta.y))
        prop == Div(Add(Mul(Sub(targetPoint.x, s.x), delta.x),
                        Mul(Sub(targetPoint.y, s.y), delta.y)), length)
    IN IF Gt(length, Zero) /\ Ge(prop, Zero) /\ Le(prop, One)
       THEN [distance |-> getDistanceFrom(targetPoint, s),
             pointOnLine |-> PointAdd(s, PointMul(delta, prop))]
       ELSE getDistanceFromPointEnds(s, e, targetPoint)

\* the record holds the distance returned and pointOnLine on return
getDistanceFromPoint(s, e, targetPoint) ==
    LET delta == PointSub(e, s)
        length == Add(Mul(delta.x, delta.x), Mul(delta.y, delta.y))
        prop == Div(Add(Mul(Sub(targetPoint.x, s.x), delta.x),
                        Mul(Sub(targetPoint.y, s.y), delta.y)), length)
    IN IF Gt(length, Zero) /\ Ge(prop, Zero) /\ Le(prop, One)
       THEN LET pointOnLine == PointAdd(s, PointMul(delta, prop))
            IN [distance |-> getDistanceFrom(targetPoint, pointOnLine),
                pointOnLine |-> pointOnLine]
       ELSE getDistanceFromPointEnds(s, e, targetPoint)

findNearestProportionalPositionTo(s, e, point) ==
    LET delta == PointSub(e, s)
        length == Add(Mul(delta.x, delta.x), Mul(delta.y, delta.y))
    IN IF Le(length, Zero)
       THEN Zero
       ELSE jlimit(Zero, One,
                   Div(Add(Mul(Sub(point.x, s.x), delta.x),
                           Mul(Sub(point.y, s.y), delta.y)), length))

\* findNearestPointTo measuring the proportion from the end point
findNearestPointTo_fromEnd(s, e, point) ==
    getPointAlongLineProportionally(e, s, findNearestProportionalPositionTo(s, e, point))

findNearestPointTo(s, e, point) ==
    getPointAlongLineProportionally(s, e, findNearestProportionalPositionTo(s, e, point))

\* isPointAbove with <= in place of <
isPointAbove_orOn(s, e, point) ==
    /\ ~Eq(s.x, e.x)
    /\ Le(point.y, Add(Div(Mul(Sub(e.y, s.y), Sub(point.x, s.x)), Sub(e.x, s.x)), s.y))

isPointAbove(s, e, point) ==
    /\ ~Eq(s.x, e.x)
    /\ Lt(point.y, Add(Div(Mul(Sub(e.y, s.y), Sub(point.x, s.x)), Sub(e.x, s.x)), s.y))

withShortenedStart(s, e, distanceToShortenBy) ==
    Line(getPointAlongLine(s, e, jmin(distanceToShortenBy, RootValue(getLength(s, e)))), e)

withShortenedEnd(s, e, distanceToShortenBy) ==
    LET length == RootValue(getLength(s, e))
    IN Line(s, getPointAlongLine(s, e, Sub(length, jmin(distanceToShortenBy, length))))

\* operator= (other): the receiver it leaves
operatorAssign(other) == Line(other.start, other.end)

\* applyTransform (transform): the receiver it leaves
applyTransform(s, e, transform) ==
    Line(PointApplyTransform(s, transform), PointApplyTransform(e, transform))

reversed(s, e) == Line(e, s)

isVertical(s, e) == Eq(s.x, e.x)

isHorizontal(s, e) == Eq(s.y, e.y)

\* Point::getAngleToPoint: the arctangent of the components of other - a,
\* kept as a term
getAngleToPoint(a, other) == [atan2 |-> PointSub(other, a)]

getAngle(s, e) == getAngleToPoint(s, e)

(***************************************************************************)
(* The state: one Line object (start, end) and the last call made on it.   *)
(* A call is one step: op names the method, line / point / dist / perp are *)
(* its arguments, ret is the value returned and out the value of its       *)
(* reference parameter on return.  Done forgets the call.                  *)
(***************************************************************************)
VARIABLES start, end, op, line, point, transform, dist, perp, ret, out

lineVars == <<start, end, op, line, point, transform, dist, perp, ret, out>>

(***************************************************************************)
(* The state of the MemoryBlock objects (see below): the objects, their    *)
(* value before the last call, the last call, and whether a call has read  *)
(* or written memory outside an allocation.                                *)
(***************************************************************************)
VARIABLES blocks, before, call, fault

mbVars == <<blocks, before, call, fault>>

(***************************************************************************)
(* The state of the array scans (findMinimum, findMaximum, findMinAndMax): *)
(* the array, the number of values asked for, and what the calls made on   *)
(* them have returned.                                                     *)
(***************************************************************************)
VARIABLES values, numValues, found

scanVars == <<values, numValues, found>>

vars == <<lineVars, mbVars, scanVars>>

\* no call has returned: each field of found is the set of the values the
\* call has returned, empty or of one element
NotCalled == [minimum |-> {}, maximum |-> {}, lowest |-> {}, highest |-> {}]

\* no variable of the array scans is in use
ScanUnused ==
    /\ values = <<>>
    /\ numValues = 0
    /\ found = NotCalled

(***************************************************************************)
(* HeapBlock<char>: a pointer that owns one heap allocation.  A value is   *)
(* [null, mem]: whether the pointer is null, and the bytes of the          *)
(* allocation it points to (mem[i + 1] is the byte at data + i).  A byte   *)
(* that was allocated and never written holds Indeterminate.               *)
(***************************************************************************)
Indeterminate == -1

hbNull == [null |-> TRUE, mem |-> <<>>]

hbAllocate(n, initialiseToZero) ==
    [null |-> FALSE, mem |-> [i \in 1 .. n |-> IF initialiseToZero THEN 0 ELSE Indeterminate]]

hbMalloc(n) == hbAllocate(n, FALSE)

\* realloc keeps the bytes the old and the new allocation have in common
hbRealloc(hb, n) ==
    [null |-> FALSE,
     mem |-> [i \in 1 .. n |-> IF i <= Len(hb.mem) THEN hb.mem[i] ELSE Indeterminate]]

\* zeromem (data + offset, num)
zeromem(mem, offset, num) ==
    [i \in 1 .. Len(mem) |-> IF offset < i /\ i <= offset + num THEN 0 ELSE mem[i]]

\* memcpy (data + offset, src, Len(src))
memcpy(mem, offset, src) ==
    [i \in 1 .. Len(mem) |->
        IF offset < i /\ i <= offset + Len(src) THEN src[i - offset] ELSE mem[i]]

\* the first n bytes at a pointer
bytesAt(hb, n) == [i \in 1 .. n |-> hb.mem[i]]

\* reading or writing n bytes at data + offset stays inside the allocation
inAllocation(hb, offset, n) == n = 0 \/ (~hb.null /\ offset + n <= Len(hb.mem))

(***************************************************************************)
(* MemoryBlock (juce_MemoryBlock.cpp): [data, size].                       *)
(***************************************************************************)
MemoryBlock_default == [data |-> hbNull, size |-> 0]

MemoryBlock_sized(initialSize, initialiseToZero) ==
    IF initialSize > 0
    THEN [data |-> hbAllocate(initialSize, initialiseToZero), size |-> initialSize]
    ELSE [data |-> hbNull, size |-> 0]

MemoryBlock_copy(other) ==
    IF other.size > 0
    THEN [data |-> [null |-> FALSE, mem |-> bytesAt(other.data, other.size)],
          size |-> other.size]
    ELSE [data |-> hbNull, size |-> 0]

MemoryBlock_fromData(dataToInitialiseFrom) ==
    IF Len(dataToInitialiseFrom) > 0
    THEN [data |-> [null |-> FALSE, mem |-> dataToInitialiseFrom],
          size |-> Len(dataToInitialiseFrom)]
    ELSE [data |-> hbNull, size |-> 0]

setSize(b, newSize, initialiseToZero) ==
    IF b.size = newSize THEN b
    ELSE IF newSize <= 0 THEN [data |-> hbNull, size |-> 0]
    ELSE IF ~b.data.null
    THEN LET r == hbRealloc(b.data, newSize)
         IN [data |-> IF initialiseToZero /\ newSize > b.size
                      THEN [r EXCEPT !.mem = zeromem(r.mem, b.size, newSize - b.size)]
                      ELSE r,
             size |-> newSize]
    ELSE [data |-> hbAllocate(newSize, initialiseToZero), size |-> newSize]

ensureSize(b, minimumSize, initialiseToZero) ==
    IF b.size < minimumSize THEN setSize(b, minimumSize, initialiseToZero) ELSE b

\* operator= (const MemoryBlock&), for this != &other: the block it
\* leaves, and whether the memcpy left one of the two allocations
copyAssign(b, other) ==
    LET r == setSize(b, other.size, FALSE)
    IN IF r.size = 0
       THEN [block |-> r, fault |-> FALSE]
       ELSE IF inAllocation(r.data, 0, r.size) /\ inAllocation(other.data, 0, r.size)
       THEN [block |-> [r EXCEPT !.data.mem =
                           memcpy(r.data.mem, 0, bytesAt(other.data, r.size))],
             fault |-> FALSE]
       ELSE [block |-> b, fault |-> TRUE]

\* fillWith (value): the block it leaves, and whether the memset left the
\* allocation
fillWith(b, value) ==
    IF b.size = 0
    THEN [block |-> b, fault |-> FALSE]
    ELSE IF inAllocation(b.data, 0, b.size)
    THEN [block |-> [b EXCEPT !.data.mem =
                        [i \in 1 .. Len(b.data.mem) |->
                            IF i <= b.size THEN value ELSE b.data.mem[i]]],
          fault |-> FALSE]
    ELSE [block |-> b, fault |-> TRUE]

\* the move constructor: the new object and what is left of other
MemoryBlock_move(other) ==
    [this |-> [data |-> other.data, size |-> other.size],
     other |-> [data |-> hbNull, size |-> other.size]]

\* operator= (MemoryBlock&&): HeapBlock's move assignment swaps the pointers
moveAssign(b, other) ==
    [this |-> [data |-> other.data, size |-> other.size],
     other |-> [data |-> b.data, size |-> other.size]]

swapWith(b, other) ==
    [this |-> [data |-> other.data, size |-> other.size],
     other |-> [data |-> b.data, size |-> b.size]]

append(b, srcData) ==
    IF Len(srcData) > 0
    THEN LET r == setSize(b, b.size + Len(srcData), FALSE)
         IN [r EXCEPT !.data.mem = memcpy(r.data.mem, b.size, srcData)]
    ELSE b

\* removeSection: the block it leaves, and whether the memmove left the
\* allocation
removeSection(b, startByte, numBytesToRemove) ==
    IF startByte + numBytesToRemove >= b.size
    THEN [block |-> setSize(b, startByte, FALSE), fault |-> FALSE]
    ELSE IF numBytesToRemove > 0
    THEN IF inAllocation(b.data, 0, b.size)
         THEN LET moved ==
                      [i \in 1 .. Len(b.data.mem) |->
                          IF startByte < i /\ i <= b.size - numBytesToRemove
                          THEN b.data.mem[i + numBytesToRemove]
                          ELSE b.data.mem[i]]
              IN [block |-> setSize([b EXCEPT !.data.mem = moved],
                                    b.size - numBytesToRemove, FALSE),
                  fault |-> FALSE]
         ELSE [block |-> b, fault |-> TRUE]
    ELSE [block |-> b, fault |-> FALSE]

\* A size_t value is kept by its representative nearest to 0: a negative
\* number x stands for 2^w + x, the value x wraps to.  a < b as size_t:
sizeLess(a, b) == IF (a < 0) = (b < 0) THEN a < b ELSE b < 0

\* copyFrom (src, offset, Len(src)), src being a buffer of Len(src) bytes:
\* the block it leaves, and whether the memcpy left one of the two buffers
copyFrom(b, src, offset, numBytes) ==
    LET d == IF offset < 0 THEN -offset ELSE 0
        num1 == IF offset < 0 THEN numBytes - offset ELSE numBytes
        offset1 == IF offset < 0 THEN 0 ELSE offset
        num == IF sizeLess(b.size, offset1 + num1) THEN b.size - offset1 ELSE num1
    IN IF num = 0
       THEN [block |-> b, fault |-> FALSE]
       ELSE IF /\ num > 0
               /\ d + num <= Len(src)
               /\ inAllocation(b.data, offset1, num)
       THEN [block |-> [b EXCEPT !.data.mem =
                           memcpy(b.data.mem, offset1,
                                  [i \in 1 .. num |-> src[d + i]])],
             fault |-> FALSE]
       ELSE [block |-> b, fault |-> TRUE]

(***************************************************************************)
(* Bit ranges.  An int or unsigned int is a word of 32 bits, w[i] being    *)
(* bit i; a byte of a block is kept as the number 0 .. 255 its 8 bits      *)
(* make.  The operators are those of C++ on 32-bit operands; >> on an int  *)
(* is the arithmetic shift.                                                *)
(***************************************************************************)
RECURSIVE Pow2(_)
Pow2(k) == IF k = 0 THEN 1 ELSE 2 * Pow2(k - 1)

BitPositions == 0 .. 31

\* bit i of the int x in two's complement
bitOf(x, i) ==
    IF x >= 0
    THEN (IF i >= 31 THEN 0 ELSE (x \div Pow2(i)) % 2)
    ELSE 1 - (IF i >= 31 THEN 0 ELSE ((0 - x - 1) \div Pow2(i)) % 2)

Word(x) == [i \in BitPositions |-> bitOf(x, i)]

\* (unsigned int) 0xffffffff
AllOnes == [i \in BitPositions |-> 1]

shl(w, k) == [i \in BitPositions |-> IF i >= k THEN w[i - k] ELSE 0]

\* >> on an unsigned int
shr(w, k) == [i \in BitPositions |-> IF i + k <= 31 THEN w[i + k] ELSE 0]

\* >> on an int
sar(w, k) == [i \in BitPositions |-> IF i + k <= 31 THEN w[i + k] ELSE w[31]]

bitNot(w) == [i \in BitPositions |-> 1 - w[i]]

bitAnd(v, w) == [i \in BitPositions |-> v[i] * w[i]]

bitOr(v, w) == [i \in BitPositions |-> IF v[i] = 1 \/ w[i] = 1 THEN 1 ELSE 0]

RECURSIVE lowBits(_, _)
lowBits(w, n) == IF n = 0 THEN 0 ELSE lowBits(w, n - 1) + w[n - 1] * Pow2(n - 1)

\* the int a word is, for a word with bit 31 clear
intOf(w) == lowBits(w, 31)

\* (char) w, as the number its 8 bits make
charOf(w) == lowBits(w, 8)

\* data[byte] as an operand: a char, promoted to int with its sign
promoted(byte) == [i \in BitPositions |-> bitOf(byte, IF i < 8 THEN i ELSE 7)]

\* a call on a bit range reads or writes a byte outside the allocation
bitRangeFaults(b, bitRangeStart, numBits) ==
    \E byte \in 0 .. (b.size - 1) :
        /\ numBits > 0
        /\ byte >= bitRangeStart \div 8
        /\ 8 * byte < bitRangeStart + numBits
        /\ (b.data.null \/ byte >= Len(b.data.mem))

RECURSIVE getBitRangeLoop(_, _, _, _, _, _)
getBitRangeLoop(b, res, byte, offsetInByte, bitsSoFar, numBits) ==
    IF numBits > 0 /\ byte < b.size
    THEN LET bitsThisTime ==
                 IF 8 - offsetInByte < numBits THEN 8 - offsetInByte ELSE numBits
             mask == shl(shr(Word(255), 8 - bitsThisTime), offsetInByte)
             got == shl(sar(bitAnd(promoted(b.data.mem[byte + 1]), mask), offsetInByte),
                        bitsSoFar)
         IN getBitRangeLoop(b, bitOr(res, got), byte + 1, 0,
                            bitsSoFar + bitsThisTime, numBits - bitsThisTime)
    ELSE res

getBitRange(b, bitRangeStart, numBits) ==
    intOf(getBitRangeLoop(b, Word(0), bitRangeStart \div 8, bitRangeStart % 8, 0, numBits))

RECURSIVE setBitRangeLoop(_, _, _, _, _, _, _)
setBitRangeLoop(mem, size, byte, offsetInByte, numBits, bitsToSet, mask) ==
    IF numBits > 0 /\ byte < size
    THEN LET bitsThisTime ==
                 IF 8 - offsetInByte < numBits THEN 8 - offsetInByte ELSE numBits
             tempMask == bitOr(shl(mask, offsetInByte),
                               bitNot(shl(shr(AllOnes, offsetInByte), offsetInByte)))
             tempBits == shl(bitsToSet, offsetInByte)
             written == charOf(bitOr(bitAnd(promoted(mem[byte + 1]), tempMask), tempBits))
         IN setBitRangeLoop([mem EXCEPT ![byte + 1] = written], size, byte + 1, 0,
                            numBits - bitsThisTime, sar(bitsToSet, bitsThisTime),
                            shr(mask, bitsThisTime))
    ELSE mem

\* for 1 <= numBits <= 32 and a block whose bytes in the range are allocated
setBitRange(b, bitRangeStart, numBits, bitsToSet) ==
    LET mask == bitNot(shr(shl(AllOnes, 32 - numBits), 32 - numBits))
    IN [b EXCEPT !.data.mem =
           setBitRangeLoop(b.data.mem, b.size, bitRangeStart \div 8, bitRangeStart % 8,
                           numBits, Word(bitsToSet), mask)]

(***************************************************************************)
(* Base64.  A String is the sequence of its characters.                    *)
(***************************************************************************)
encodingTable ==
    <<".", "A", "B", "C", "D", "E", "F", "G", "H", "I", "J", "K", "L",
      "M", "N", "O", "P", "Q", "R", "S", "T", "U", "V", "W", "X", "Y",
      "Z", "a", "b", "c", "d", "e", "f", "g", "h", "i", "j", "k", "l",
      "m", "n", "o", "p", "q", "r", "s", "t", "u", "v", "w", "x", "y",
      "z", "0", "1", "2", "3", "4", "5", "6", "7", "8", "9", "+">>

Digits == <<"0", "1", "2", "3", "4", "5", "6", "7", "8", "9">>

\* String ((unsigned int) n): the decimal digits of n
RECURSIVE decimal(_)
decimal(n) ==
    IF n < 10 THEN <<Digits[n + 1]>> ELSE Append(decimal(n \div 10), Digits[(n % 10) + 1])

\* String::indexOfChar: the index, from 0, of the first c in s, or -1
indexOfChar(s, c) ==
    IF \E i \in 1 .. Len(s) : s[i] = c
    THEN (CHOOSE i \in 1 .. Len(s) : s[i] = c /\ \A j \in 1 .. (i - 1) : s[j] # c) - 1
    ELSE 0 - 1

\* String::substring (startIndex, endIndex)
substring(s, startIndex, endIndex) == SubSeq(s, startIndex + 1, endIndex)

\* the index of the character c in the sequence t, from 0, or -1
charIndex(t, c) ==
    IF \E j \in 1 .. Len(t) : t[j] = c
    THEN (CHOOSE j \in 1 .. Len(t) : t[j] = c) - 1
    ELSE 0 - 1

\* String::getIntValue, for a string with no sign: the number its leading
\* digits make
RECURSIVE getIntValueFrom(_, _, _)
getIntValueFrom(s, i, n) ==
    IF i <= Len(s) /\ charIndex(Digits, s[i]) >= 0
    THEN getIntValueFrom(s, i + 1, 10 * n + charIndex(Digits, s[i]))
    ELSE n

getIntValue(s) == getIntValueFrom(s, 1, 0)

\* the letters 'A'..'Z' and 'a'..'z', in the order of their codes
UpperCase == SubSeq(encodingTable, 2, 27)
LowerCase == SubSeq(encodingTable, 28, 53)

\* what loadFromHexString ors into the byte for the character c: c - '0'
\* for a digit, c - ('a' - 10) or c - ('A' - 10) for a letter, and -1 for
\* a character it skips
hexValue(c) ==
    IF charIndex(Digits, c) >= 0 THEN charIndex(Digits, c)
    ELSE IF charIndex(LowerCase, c) >= 0 THEN charIndex(LowerCase, c) + 10
    ELSE IF charIndex(UpperCase, c) >= 0 THEN charIndex(UpperCase, c) + 10
    ELSE 0 - 1

\* the values of the characters of hex that loadFromHexString does not skip
RECURSIVE hexValues(_)
hexValues(hex) ==
    IF hex = <<>> THEN <<>>
    ELSE (IF hexValue(Head(hex)) >= 0 THEN <<hexValue(Head(hex))>> ELSE <<>>)
         \o hexValues(Tail(hex))

\* loadFromHexString (hex): the block it leaves, and whether a byte was
\* written outside the allocation.  Each pair of values makes one byte,
\* (char) ((first << 4) | second); a last value with no partner is dropped.
loadFromHexString(b, hex) ==
    LET r == ensureSize(b, Len(hex) \div 2, FALSE)
        v == hexValues(hex)
        numBytes == Len(v) \div 2
        bytes == [k \in 1 .. numBytes |->
                     charOf(bitOr(shl(Word(v[2 * k - 1]), 4), Word(v[2 * k])))]
    IN IF inAllocation(r.data, 0, numBytes)
       THEN [block |-> setSize(IF numBytes > 0
                               THEN [r EXCEPT !.data.mem = memcpy(r.data.mem, 0, bytes)]
                               ELSE r,
                               numBytes, FALSE),
             fault |-> FALSE]
       ELSE [block |-> b, fault |-> TRUE]

\* for a block whose size bytes are allocated
toBase64Encoding(b) ==
    LET numChars == ((b.size * 8) + 5) \div 6
    IN decimal(b.size) \o <<".">>
           \o [i \in 1 .. numChars |-> encodingTable[getBitRange(b, (i - 1) * 6, 6) + 1]]

\* the loop over the characters from the i-th on: the block, whether a
\* setBitRange went outside the allocation, and pos
RECURSIVE fromBase64Loop(_, _, _, _)
fromBase64Loop(b, s, i, pos) ==
    IF i > Len(s) THEN [block |-> b, fault |-> FALSE]
    ELSE LET j == charIndex(encodingTable, s[i])
         IN IF j < 0 THEN fromBase64Loop(b, s, i + 1, pos)
            ELSE IF bitRangeFaults(b, pos, 6) THEN [block |-> b, fault |-> TRUE]
            ELSE fromBase64Loop(setBitRange(b, pos, 6, j), s, i + 1, pos + 6)

\* fromBase64Encoding (s): the value returned, the block, and whether a
\* byte outside the allocation was written
fromBase64Encoding(b, s) ==
    LET startPos == indexOfChar(s, ".") + 1
    IN IF startPos <= 0
       THEN [ret |-> FALSE, block |-> b, fault |-> FALSE]
       ELSE LET numBytesNeeded == getIntValue(substring(s, 0, startPos - 1))
                r == fromBase64Loop(setSize(b, numBytesNeeded, TRUE), s, startPos + 1, 0)
            IN [ret |-> TRUE, block |-> r.block, fault |-> r.fault]

\* no variable of the MemoryBlock part is in use
MemoryBlocksUnused ==
    /\ blocks = <<MemoryBlock_default, MemoryBlock_default>>
    /\ before = <<MemoryBlock_default, MemoryBlock_default>>
    /\ call = [op |-> "none"]
    /\ fault = FALSE

GridPoints == {Pt(i, j) : i \in 0 .. MaxCoord, j \in 0 .. MaxCoord}

GridLines == {Line(a, b) : a \in GridPoints, b \in GridPoints}

\* the segments and the points of the scenarios of the specification
ScenarioReceivers ==
    {Line(Pt(0, 0), Pt(10, 0)), Line(Pt(3, 3), Pt(3, 3)), Line(Pt(0, 0), Pt(3, 4))}

ScenarioLines ==
    {Line(Pt(5, -5), Pt(5, 5)), Line(Pt(20, -5), Pt(20, 5)), Line(Pt(0, 5), Pt(10, 5))}

ScenarioPoints == {Pt(5, 5), Pt(-1, 1)}

Receivers == GridLines \cup ScenarioReceivers

ArgLines == GridLines \cup ScenarioLines

ArgPoints == GridPoints \cup ScenarioPoints

Distances == {R(i) : i \in (-1 .. MaxDist) \cup {5}}

Offsets == {R(-1), R(0), R(1)}

Proportions == {R(-1), R(0), [n |-> 1, d |-> 2], R(1), R(2)}

\* the transforms given to applyTransform: the identity, a translation, a
\* reflection in the diagonal, a scaling and a rotation by a quarter turn
identity == AffineTransform(R(1), R(0), R(0), R(0), R(1), R(0))

Transforms ==
    {identity,
     AffineTransform(R(1), R(0), R(1), R(0), R(1), R(0 - 1)),
     AffineTransform(R(0), R(1), R(0), R(1), R(0), R(0)),
     AffineTransform(R(2), R(0), R(0), R(0), R(2), R(0)),
     AffineTransform(R(0), R(0 - 1), R(2), R(1), R(0), R(0))}

\* the value of a variable that holds nothing
None == Pt(0, 0)

\* the value of a caller's point that was never assigned
Unset == Point(NaN, NaN)

Init ==
    /\ \E l \in Receivers : start = l.start /\ end = l.end
    /\ op = "none"
    /\ line = Line(None, None)
    /\ point = None
    /\ transform = identity
    /\ dist = Zero
    /\ perp = Zero
    /\ ret = FALSE
    /\ out = None
    /\ MemoryBlocksUnused
    /\ ScanUnused

SetStart ==
    /\ op = "none"
    /\ \E newStart \in GridPoints :
          /\ point' = newStart
          /\ start' = newStart
    /\ op' = "setStart"
    /\ UNCHANGED <<end, line, dist, perp, ret, out>>
    /\ UNCHANGED <<transform, mbVars, scanVars>>

SetEnd ==
    /\ op = "none"
    /\ \E newEnd \in GridPoints :
          /\ point' = newEnd
          /\ end' = newEnd
    /\ op' = "setEnd"
    /\ UNCHANGED <<start, line, dist, perp, ret, out>>
    /\ UNCHANGED <<transform, mbVars, scanVars>>

\* operator= (other)
Assign ==
    /\ op = "none"
    /\ \E other \in Receivers :
          /\ line' = other
          /\ start' = operatorAssign(other).start
          /\ end' = operatorAssign(other).end
    /\ op' = "operator="
    /\ UNCHANGED <<point, dist, perp, ret, out>>
    /\ UNCHANGED <<transform, mbVars, scanVars>>

\* applyTransform (transform), for the transforms that leave the receiver
\* one of the segments the model draws from
ApplyTransform ==
    /\ op = "none"
    /\ \E t \in Transforms :
          LET r == applyTransform(start, end, t)
          IN /\ r \in Receivers
             /\ transform' = t
             /\ start' = r.start
             /\ end' = r.end
    /\ op' = "applyTransform"
    /\ UNCHANGED <<line, point, dist, perp, ret, out>>
    /\ UNCHANGED <<mbVars, scanVars>>

Intersects ==
    /\ op = "none"
    /\ \E other \in ArgLines :
          LET r == intersects(start, end, other, Unset)
          IN /\ line' = other
             /\ ret' = r.result
             /\ out' = r.intersection
    /\ op' = "intersects"
    /\ UNCHANGED <<start, end, point, dist, perp>>
    /\ UNCHANGED <<transform, mbVars, scanVars>>

GetIntersection ==
    /\ op = "none"
    /\ \E other \in ArgLines :
          /\ line' = other
          /\ ret' = getIntersection(start, end, other)
    /\ op' = "getIntersection"
    /\ UNCHANGED <<start, end, point, dist, perp, out>>
    /\ UNCHANGED <<transform, mbVars, scanVars>>

\* the length of the receiver is a rational number: the values the model has
HasRationalLength == IsRationalRoot(getLength(start, end))

GetPointAlongLine ==
    /\ op = "none"
    /\ HasRationalLength
    /\ \E distanceFromStart \in Distances :
          /\ dist' = distanceFromStart
          /\ ret' = getPointAlongLine(start, end, distanceFromStart)
    /\ op' = "getPointAlongLine"
    /\ UNCHANGED <<start, end, line, point, perp, out>>
    /\ UNCHANGED <<transform, mbVars, scanVars>>

GetPointAlongLine2 ==
    /\ op = "none"
    /\ HasRationalLength
    /\ \E distanceFromStart \in Distances, perpendicularDistance \in Offsets :
          /\ dist' = distanceFromStart
          /\ perp' = perpendicularDistance
          /\ ret' = getPointAlongLine2(start, end, distanceFromStart, perpendicularDistance)
    /\ op' = "getPointAlongLine2"
    /\ UNCHANGED <<start, end, line, point, out>>
    /\ UNCHANGED <<transform, mbVars, scanVars>>

GetDistanceFromPoint ==
    /\ op = "none"
    /\ \E targetPoint \in ArgPoints :
          LET r == getDistanceFromPoint(start, end, targetPoint)
          IN /\ point' = targetPoint
             /\ ret' = r.distance
             /\ out' = r.pointOnLine
    /\ op' = "getDistanceFromPoint"
    /\ UNCHANGED <<start, end, line, dist, perp>>
    /\ UNCHANGED <<transform, mbVars, scanVars>>

FindNearestProportionalPositionTo ==
    /\ op = "none"
    /\ \E p \in ArgPoints :
          /\ point' = p
          /\ ret' = findNearestProportionalPositionTo(start, end, p)
    /\ op' = "findNearestProportionalPositionTo"
    /\ UNCHANGED <<start, end, line, dist, perp, out>>
    /\ UNCHANGED <<transform, mbVars, scanVars>>

FindNearestPointTo ==
    /\ op = "none"
    /\ \E p \in ArgPoints :
          /\ point' = p
          /\ ret' = findNearestPointTo(start, end, p)
    /\ op' = "findNearestPointTo"
    /\ UNCHANGED <<start, end, line, dist, perp, out>>
    /\ UNCHANGED <<transform, mbVars, scanVars>>

IsPointAbove ==
    /\ op = "none"
    /\ \E p \in ArgPoints :
          /\ point' = p
          /\ ret' = isPointAbove(start, end, p)
    /\ op' = "isPointAbove"
    /\ UNCHANGED <<start, end, line, dist, perp, out>>
    /\ UNCHANGED <<transform, mbVars, scanVars>>

GetPointAlongLineProportionally ==
    /\ op = "none"
    /\ \E proportionOfLength \in Proportions :
          /\ dist' = proportionOfLength
          /\ ret' = getPointAlongLineProportionally(start, end, proportionOfLength)
    /\ op' = "getPointAlongLineProportionally"
    /\ UNCHANGED <<start, end, line, point, perp, out>>
    /\ UNCHANGED <<transform, mbVars, scanVars>>

WithShortenedStart ==
    /\ op = "none"
    /\ HasRationalLength
    /\ \E distanceToShortenBy \in Distances :
          /\ dist' = distanceToShortenBy
          /\ ret' = withShortenedStart(start, end, distanceToShortenBy)
    /\ op' = "withShortenedStart"
    /\ UNCHANGED <<start, end, line, point, perp, out>>
    /\ UNCHANGED <<transform, mbVars, scanVars>>

WithShortenedEnd ==
    /\ op = "none"
    /\ HasRationalLength
    /\ \E distanceToShortenBy \in Distances :
          /\ dist' = distanceToShortenBy
          /\ ret' = withShortenedEnd(start, end, distanceToShortenBy)
    /\ op' = "withShortenedEnd"
    /\ UNCHANGED <<start, end, line, point, perp, out>>
    /\ UNCHANGED <<transform, mbVars, scanVars>>

\* the queries without arguments: getLength, getAngle, isVertical,
\* isHorizontal, reversed
Query ==
    /\ op = "none"
    /\ \/ op' = "getLength" /\ ret' = getLength(start, end)
       \/ op' = "getAngle" /\ ret' = getAngle(start, end)
       \/ op' = "isVertical" /\ ret' = isVertical(start, end)
       \/ op' = "isHorizontal" /\ ret' = isHorizontal(start, end)
    /\ UNCHANGED <<start, end, line, point, dist, perp, out>>
    /\ UNCHANGED <<transform, mbVars, scanVars>>

Reversed ==
    /\ op = "none"
    /\ op' = "reversed"
    /\ ret' = reversed(start, end)
    /\ UNCHANGED <<start, end, line, point, dist, perp, out>>
    /\ UNCHANGED <<transform, mbVars, scanVars>>

Done ==
    /\ op # "none"
    /\ op' = "none"
    /\ line' = Line(None, None)
    /\ point' = None
    /\ transform' = identity
    /\ dist' = Zero
    /\ perp' = Zero
    /\ ret' = FALSE
    /\ out' = None
    /\ UNCHANGED <<start, end>>
    /\ UNCHANGED <<mbVars, scanVars>>

Next ==
    \/ SetStart
    \/ SetEnd
    \/ Assign
    \/ ApplyTransform
    \/ Intersects
    \/ GetIntersection
    \/ GetPointAlongLine
    \/ GetPointAlongLine2
    \/ GetDistanceFromPoint
    \/ FindNearestProportionalPositionTo
    \/ FindNearestPointTo
    \/ IsPointAbove
    \/ GetPointAlongLineProportionally
    \/ WithShortenedStart
    \/ WithShortenedEnd
    \/ Query
    \/ Reversed
    \/ Done

Spec == Init /\ [][Next]_vars

(***************************************************************************)
(* MemoryBlock objects.  blocks[1] is the object the calls are made on, it *)
(* lives through the whole run.  blocks[2] is the second object of a call  *)
(* that has one (copy, move, assignment, swapWith): it is constructed for  *)
(* the call and destroyed when the call is forgotten (Returned).  In such  *)
(* a call the receiver is object 1 or object 2.  call records the last     *)
(* call, before the two objects as they were when it was made.  A call     *)
(* that reads or writes outside an allocation has undefined behaviour: it  *)
(* sets fault, and nothing is said about the program from then on.         *)
(***************************************************************************)
Objs == {1, 2}

Other(o) == 3 - o

Sizes == 0 .. MaxSize

\* the byte strings passed to the constructor from data and to append
DataBlocks == {<<1>>, <<2, 1>>}

\* the values the second object of a call is constructed with
Others ==
    {MemoryBlock_sized(n, z) : n \in Sizes, z \in BOOLEAN}
        \cup {MemoryBlock_fromData(d) : d \in DataBlocks}

\* no variable of the Line part is in use
LineUnused ==
    /\ start = None
    /\ end = None
    /\ op = "none"
    /\ line = Line(None, None)
    /\ point = None
    /\ transform = identity
    /\ dist = Zero
    /\ perp = Zero
    /\ ret = FALSE
    /\ out = None

\* object 1 is made by the default constructor
InitMB ==
    /\ blocks = <<MemoryBlock_default, MemoryBlock_default>>
    /\ before = <<MemoryBlock_default, MemoryBlock_default>>
    /\ call = [op |-> "none"]
    /\ fault = FALSE
    /\ LineUnused
    /\ ScanUnused

\* the step of a call on object 1 alone, which leaves it as b
Called(c, b) ==
    /\ call.op = "none"
    /\ ~fault
    /\ blocks' = [blocks EXCEPT ![1] = b]
    /\ before' = blocks
    /\ call' = c
    /\ fault' = FALSE
    /\ UNCHANGED <<lineVars, scanVars>>

\* the step of a call with receiver o, the two objects being both before
\* it, which leaves the receiver as r.this and the other object as r.other
CalledBoth(o, c, both, r) ==
    /\ call.op = "none"
    /\ ~fault
    /\ blocks' = [both EXCEPT ![o] = r.this, ![Other(o)] = r.other]
    /\ before' = both
    /\ call' = c
    /\ fault' = FALSE
    /\ UNCHANGED <<lineVars, scanVars>>

\* the step of a call with undefined behaviour
Faulted(c, both) ==
    /\ call.op = "none"
    /\ ~fault
    /\ fault' = TRUE
    /\ blocks' = both
    /\ before' = both
    /\ call' = c
    /\ UNCHANGED <<lineVars, scanVars>>

ConstructSized ==
    \E n \in Sizes, z \in BOOLEAN :
        Called([op |-> "MemoryBlock", obj |-> 1, n |-> n, zero |-> z],
               MemoryBlock_sized(n, z))

ConstructFromData ==
    \E d \in DataBlocks :
        Called([op |-> "MemoryBlock", obj |-> 1, n |-> Len(d), zero |-> FALSE],
               MemoryBlock_fromData(d))

\* MemoryBlock x (other): the receiver is a new object
CopyConstruct ==
    \E o \in Objs, second \in Others :
        LET both == <<blocks[1], second>>
            c == [op |-> "copy", obj |-> o, n |-> 0, zero |-> FALSE]
        IN IF inAllocation(both[Other(o)].data, 0, both[Other(o)].size)
           THEN CalledBoth(o, c, both,
                           [this |-> MemoryBlock_copy(both[Other(o)]),
                            other |-> both[Other(o)]])
           ELSE Faulted(c, both)

CopyAssign ==
    \E o \in Objs, second \in Others :
        LET both == <<blocks[1], second>>
            c == [op |-> "operator=", obj |-> o, n |-> 0, zero |-> FALSE]
            r == copyAssign(both[o], both[Other(o)])
        IN IF r.fault
           THEN Faulted(c, both)
           ELSE CalledBoth(o, c, both, [this |-> r.block, other |-> both[Other(o)]])

\* MemoryBlock x (std::move (other)): the receiver is a new object
MoveConstruct ==
    \E o \in Objs, second \in Others :
        LET both == <<blocks[1], second>>
        IN CalledBoth(o, [op |-> "move", obj |-> o, n |-> 0, zero |-> FALSE], both,
                      MemoryBlock_move(both[Other(o)]))

MoveAssign ==
    \E o \in Objs, second \in Others :
        LET both == <<blocks[1], second>>
        IN CalledBoth(o, [op |-> "operator=&&", obj |-> o, n |-> 0, zero |-> FALSE], both,
                      moveAssign(both[o], both[Other(o)]))

SetSize ==
    \E n \in Sizes, z \in BOOLEAN :
        Called([op |-> "setSize", obj |-> 1, n |-> n, zero |-> z],
               setSize(blocks[1], n, z))

EnsureSize ==
    \E n \in Sizes, z \in BOOLEAN :
        Called([op |-> "ensureSize", obj |-> 1, n |-> n, zero |-> z],
               ensureSize(blocks[1], n, z))

SwapWith ==
    \E second \in Others :
        LET both == <<blocks[1], second>>
        IN CalledBoth(1, [op |-> "swapWith", obj |-> 1, n |-> 0, zero |-> FALSE], both,
                      swapWith(both[1], both[2]))

AppendBytes ==
    \E d \in DataBlocks :
        /\ blocks[1].size + Len(d) <= MaxSize
        /\ Called([op |-> "append", obj |-> 1, n |-> Len(d), zero |-> FALSE],
                  append(blocks[1], d))

RemoveSection ==
    \E startByte \in Sizes, numBytesToRemove \in Sizes :
        LET c == [op |-> "removeSection", obj |-> 1, n |-> startByte, zero |-> FALSE,
                  num |-> numBytesToRemove]
            r == removeSection(blocks[1], startByte, numBytesToRemove)
        IN IF r.fault THEN Faulted(c, blocks) ELSE Called(c, r.block)

\* the values fillWith is called with
FillValues == {0, 165}

FillWith ==
    \E value \in FillValues :
        LET c == [op |-> "fillWith", obj |-> 1, n |-> value, zero |-> FALSE]
            r == fillWith(blocks[1], value)
        IN IF r.fault THEN Faulted(c, blocks) ELSE Called(c, r.block)

\* the offsets copyFrom is called with: before, inside and beyond the block
ByteOffsets == (0 - 2) .. (MaxSize + 1)

CopyFrom ==
    \E src \in DataBlocks, offset \in ByteOffsets :
        LET c == [op |-> "copyFrom", obj |-> 1, n |-> offset, zero |-> FALSE,
                  src |-> src]
            r == copyFrom(blocks[1], src, offset, Len(src))
        IN IF r.fault THEN Faulted(c, blocks) ELSE Called(c, r.block)

\* the call is over: the second object is destroyed
Returned ==
    /\ call.op # "none"
    /\ ~fault
    /\ call' = [op |-> "none"]
    /\ blocks' = [blocks EXCEPT ![2] = MemoryBlock_default]
    /\ before' = <<MemoryBlock_default, MemoryBlock_default>>
    /\ UNCHANGED <<fault, lineVars, scanVars>>

NextMB ==
    \/ ConstructSized
    \/ ConstructFromData
    \/ CopyConstruct
    \/ CopyAssign
    \/ MoveConstruct
    \/ MoveAssign
    \/ SetSize
    \/ EnsureSize
    \/ SwapWith
    \/ AppendBytes
    \/ RemoveSection
    \/ FillWith
    \/ CopyFrom
    \/ Returned

SpecMB == InitMB /\ [][NextMB]_vars

(***************************************************************************)
(* Bit ranges and base64.  Object 1 starts as a block of some bytes; a run *)
(* may move from it (the object the move constructs is object 2, gone when *)
(* the call is forgotten) and then makes one of: setBitRange, followed or  *)
(* not by getBitRange of the same range; getBitRange; toBase64Encoding of  *)
(* a second block followed by fromBase64Encoding of the string on object   *)
(* 1; fromBase64Encoding of some other string.                             *)
(***************************************************************************)
ByteValues == {0, 165, 255}

RECURSIVE ByteStringsOfLen(_)
ByteStringsOfLen(n) ==
    IF n = 0 THEN {<<>>}
    ELSE {Append(a, x) : a \in ByteStringsOfLen(n - 1), x \in ByteValues}

ByteBlocks == {MemoryBlock_fromData(d) : d \in UNION {ByteStringsOfLen(n) : n \in Sizes}}

BitStarts == {0, 3, 6, 12, 21}

BitCounts == {1, 6, 9, 31}

\* the values written: inside the range, and with bits set above it
BitValues == {0, 3, 85, 341, 0 - 1}

\* strings that no toBase64Encoding has made
OtherStrings == {<<>>, <<"A", "B">>, <<"1", ".", "/", "+">>, <<"2", ".", "+">>}

InitBits ==
    /\ \E t \in ByteBlocks : blocks = <<t, MemoryBlock_default>>
    /\ before = <<MemoryBlock_default, MemoryBlock_default>>
    /\ call = [op |-> "none"]
    /\ fault = FALSE
    /\ LineUnused
    /\ ScanUnused

\* MemoryBlock x (std::move (t)), t being object 1
MoveFrom ==
    /\ blocks[1].size > 0
    /\ ~blocks[1].data.null
    /\ LET both == <<blocks[1], MemoryBlock_default>>
       IN CalledBoth(2, [op |-> "move", obj |-> 2, n |-> 0, zero |-> FALSE], both,
                     MemoryBlock_move(both[1]))

ReturnedFromMove == call.op = "move" /\ Returned

SetBitRange ==
    \E bitRangeStart \in BitStarts, numBits \in BitCounts, bitsToSet \in BitValues :
        LET c == [op |-> "setBitRange", obj |-> 1, n |-> numBits, zero |-> FALSE,
                  bitRangeStart |-> bitRangeStart, bitsToSet |-> bitsToSet]
        IN IF bitRangeFaults(blocks[1], bitRangeStart, numBits)
           THEN Faulted(c, blocks)
           ELSE Called(c, setBitRange(blocks[1], bitRangeStart, numBits, bitsToSet))

\* getBitRange of the range just set, or of any range
GetBitRange ==
    /\ ~fault
    /\ \E bitRangeStart \in BitStarts, numBits \in BitCounts :
          /\ \/ call.op = "none"
             \/ /\ call.op = "setBitRange"
                /\ call.bitRangeStart = bitRangeStart
                /\ call.n = numBits
          /\ LET faults == bitRangeFaults(blocks[1], bitRangeStart, numBits)
             IN /\ fault' = faults
                /\ call' = [op |-> "getBitRange", obj |-> 1, n |-> numBits, zero |-> FALSE,
                            bitRangeStart |-> bitRangeStart,
                            written |-> IF call.op = "setBitRange"
                                        THEN {call.bitsToSet} ELSE {},
                            ret |-> IF faults THEN 0
                                    ELSE getBitRange(blocks[1], bitRangeStart, numBits)]
    /\ UNCHANGED <<blocks, before, lineVars, scanVars>>

\* b.toBase64Encoding(), b being a second block
ToBase64Encoding ==
    /\ call.op = "none"
    /\ ~fault
    /\ \E b \in ByteBlocks :
          /\ blocks' = <<blocks[1], b>>
          /\ before' = <<blocks[1], b>>
          /\ call' = [op |-> "toBase64Encoding", obj |-> 2, n |-> 0, zero |-> FALSE,
                      ret |-> toBase64Encoding(b)]
    /\ UNCHANGED <<fault, lineVars, scanVars>>

\* t.fromBase64Encoding (s), s being the string just made or another one
FromBase64Encoding ==
    /\ ~fault
    /\ \E s \in OtherStrings \cup (IF call.op = "toBase64Encoding" THEN {call.ret} ELSE {}) :
          /\ \/ call.op = "none" /\ s \in OtherStrings
             \/ call.op = "toBase64Encoding" /\ s = call.ret
          /\ LET r == fromBase64Encoding(blocks[1], s)
             IN /\ blocks' = [blocks EXCEPT ![1] = r.block]
                /\ fault' = r.fault
                /\ call' = [op |-> "fromBase64Encoding", obj |-> 1, n |-> 0, zero |-> FALSE,
                            s |-> s, roundTrip |-> call.op = "toBase64Encoding",
                            ret |-> r.ret]
    /\ before' = blocks
    /\ UNCHANGED <<lineVars, scanVars>>

\* the strings given to loadFromHexString: empty, whole bytes, an odd
\* number of digits, letters beyond 'f' and characters that are skipped
HexStrings ==
    {<<>>, <<"a", "b">>, <<"a", "5", "f", "f", "0", "1">>, <<"1", "2", "3">>,
     <<"0", "g", ".", "Z">>, <<"F", "+", "f">>}

\* t.loadFromHexString (hex)
LoadFromHexString ==
    /\ call.op = "none"
    /\ ~fault
    /\ \E hex \in HexStrings :
          LET r == loadFromHexString(blocks[1], hex)
          IN /\ blocks' = [blocks EXCEPT ![1] = r.block]
             /\ fault' = r.fault
             /\ call' = [op |-> "loadFromHexString", obj |-> 1, n |-> 0, zero |-> FALSE,
                         s |-> hex]
    /\ before' = blocks
    /\ UNCHANGED <<lineVars, scanVars>>

NextBits ==
    \/ MoveFrom
    \/ ReturnedFromMove
    \/ SetBitRange
    \/ GetBitRange
    \/ ToBase64Encoding
    \/ FromBase64Encoding
    \/ LoadFromHexString

SpecBits == InitBits /\ [][NextBits]_vars

(***************************************************************************)
(* The array scans.  A run starts with an array of int and a number of     *)
(* values that is at most its length; each of the three functions is       *)
(* called on them once, in any order.                                      *)
(***************************************************************************)
Elements == (0 - 1) .. MaxValue

RECURSIVE ArraysOfLen(_)
ArraysOfLen(n) ==
    IF n = 0 THEN {<<>>}
    ELSE {Append(a, x) : a \in ArraysOfLen(n - 1), x \in Elements}

Arrays == UNION {ArraysOfLen(n) : n \in 0 .. MaxLen}

InitScan ==
    /\ values \in Arrays
    /\ numValues \in (0 - 1) .. Len(values)
    /\ found = NotCalled
    /\ LineUnused
    /\ MemoryBlocksUnused

FindMinimum ==
    /\ found.minimum = {}
    /\ found' = [found EXCEPT !.minimum = {findMinimum(values, numValues)}]
    /\ UNCHANGED <<values, numValues, lineVars, mbVars>>

FindMaximum ==
    /\ found.maximum = {}
    /\ found' = [found EXCEPT !.maximum = {findMaximum(values, numValues)}]
    /\ UNCHANGED <<values, numValues, lineVars, mbVars>>

FindMinAndMax ==
    /\ found.lowest = {}
    /\ LET r == findMinAndMax(values, numValues)
       IN found' = [found EXCEPT !.lowest = {r.lowest}, !.highest = {r.highest}]
    /\ UNCHANGED <<values, numValues, lineVars, mbVars>>

NextScan ==
    \/ FindMinimum
    \/ FindMaximum
    \/ FindMinAndMax

SpecScan == InitScan /\ [][NextScan]_vars

(***************************************************************************)
(* Geometry the properties are stated with, defined apart from the code.   *)
(***************************************************************************)
Cross(a, b) == Sub(Mul(a.x, b.y), Mul(a.y, b.x))

Dot(a, b) == Add(Mul(a.x, b.x), Mul(a.y, b.y))

\* x lies on the infinite line through a and b
OnInfiniteLine(x, a, b) == Eq(Cross(PointSub(x, a), PointSub(b, a)), Zero)

\* the foot of x on the line a-b has a parametric position in [0, 1]
WithinEnds(x, a, b) ==
    /\ Ge(Dot(PointSub(x, a), PointSub(b, a)), Zero)
    /\ Le(Dot(PointSub(x, b), PointSub(b, a)), Zero)

Orientation(a, b, c) ==
    LET k == Cross(PointSub(b, a), PointSub(c, a))
    IN IF Lt(k, Zero) THEN -1 ELSE IF Gt(k, Zero) THEN 1 ELSE 0

\* c is a point of the closed segment a-b
OnSegment(a, b, c) ==
    /\ Orientation(a, b, c) = 0
    /\ Le(jmin(a.x, b.x), c.x) /\ Le(c.x, jmax(a.x, b.x))
    /\ Le(jmin(a.y, b.y), c.y) /\ Le(c.y, jmax(a.y, b.y))

\* the closed segments p1-p2 and p3-p4 have a point in common
SegmentsMeet(p1, p2, p3, p4) ==
    \/ /\ Orientation(p1, p2, p3) * Orientation(p1, p2, p4) < 0
       /\ Orientation(p3, p4, p1) * Orientation(p3, p4, p2) < 0
    \/ OnSegment(p1, p2, p3)
    \/ OnSegment(p1, p2, p4)
    \/ OnSegment(p3, p4, p1)
    \/ OnSegment(p3, p4, p2)

\* the divisor of findIntersection for the receiver and the argument line
Divisor ==
    Cross(PointSub(end, start), PointSub(line.end, line.start))

\* one of the four axis-aligned cases of the divisor == 0 branch applies
AxisAlignedCase ==
    LET d1 == PointSub(end, start)
        d2 == PointSub(line.end, line.start)
    IN /\ ~isOrigin(d1)
       /\ ~isOrigin(d2)
       /\ \/ Eq(d1.y, Zero) /\ ~Eq(d2.y, Zero)
          \/ Eq(d2.y, Zero) /\ ~Eq(d1.y, Zero)
          \/ Eq(d1.x, Zero) /\ ~Eq(d2.x, Zero)
          \/ Eq(d2.x, Zero) /\ ~Eq(d1.x, Zero)

Degenerate == PointEq(start, end)

\* C1: with p2 != p3 and a non-zero divisor, intersects sets the point to
\* the intersection of the two infinite lines, wherever it lies, and
\* returns true exactly when its position on both segments is in [0, 1];
\* (0,0)-(10,0) with (20,-5)-(20,5) gives false and (20, 0).
C1_GeneralCase ==
    (op = "intersects" /\ ~PointEq(end, line.start) /\ ~Eq(Divisor, Zero)) =>
        /\ OnInfiniteLine(out, start, end)
        /\ OnInfiniteLine(out, line.start, line.end)
        /\ ret = (WithinEnds(out, start, end) /\ WithinEnds(out, line.start, line.end))

C1_Witness ==
    /\ op = "intersects"
    /\ start = Pt(0, 0) /\ end = Pt(10, 0)
    /\ line = Line(Pt(20, -5), Pt(20, 5))
    /\ ret = FALSE
    /\ out = Pt(20, 0)

\* C2: intersects returns true exactly when the two closed segments have a
\* point in common, parallel, collinear and zero-length segments included.
C2_TrueIffSegmentsMeet ==
    op = "intersects" => (ret = SegmentsMeet(start, end, line.start, line.end))

\* C3: A.intersects(B, _) and B.intersects(A, _) return the same boolean.
C3_Symmetric ==
    op = "intersects" => (ret = intersects(line.start, line.end, Line(start, end), Unset).result)

\* C4: on every return path of intersects and getIntersection the point has
\* been assigned by the call: it never keeps the value the caller passed.
C4_PointAssigned ==
    /\ op = "intersects" => (out # Unset /\ IsFinitePoint(out))
    /\ op = "getIntersection" => (ret = intersects(start, end, line, Unset).intersection)

C4_Witness ==
    /\ op = "intersects"
    /\ ~PointEq(end, line.start)
    /\ Eq(Divisor, Zero)
    /\ ret = FALSE
    /\ out # Unset

\* C5: with a zero divisor, p2 != p3 and no axis-aligned case, intersects
\* returns false and sets the point to the midpoint of p2 and p3;
\* (0,0)-(10,0) with (0,5)-(10,5) gives false and (5, 2.5).
C5_ParallelFallback ==
    (op = "intersects" /\ ~PointEq(end, line.start) /\ Eq(Divisor, Zero) /\ ~AxisAlignedCase) =>
        /\ ret = FALSE
        /\ Eq(Add(out.x, out.x), Add(end.x, line.start.x))
        /\ Eq(Add(out.y, out.y), Add(end.y, line.start.y))

C5_Witness ==
    /\ op = "intersects"
    /\ start = Pt(0, 0) /\ end = Pt(10, 0)
    /\ line = Line(Pt(0, 5), Pt(10, 5))
    /\ ret = FALSE
    /\ out = Point(R(5), [n |-> 5, d |-> 2])

\* C6: when the end of the receiver is the start of the other segment,
\* intersects returns true and the point is that shared point, whatever
\* p1 and p4 are.
C6_SharedEndpoint ==
    (op = "intersects" /\ PointEq(end, line.start)) => (ret = TRUE /\ out = end)

C6_Witness ==
    /\ op = "intersects"
    /\ PointEq(end, line.start)
    /\ Eq(Divisor, Zero)
    /\ ~Degenerate
    /\ ~PointEq(line.start, line.end)
    /\ ret = TRUE
    /\ out = end

\* C7: for a zero-length segment the one-argument getPointAlongLine divides
\* by nothing that is zero and returns start for every distance.
C7_DegenerateAlongLine ==
    (op = "getPointAlongLine" /\ Degenerate) => ret = start

\* C8: for a zero-length segment the two-argument getPointAlongLine returns
\* start for every distance and every perpendicular offset.
C8_DegenerateAlongLine2 ==
    (op = "getPointAlongLine2" /\ Degenerate) => ret = start

C8_Witness ==
    /\ op = "getPointAlongLine2"
    /\ start = Pt(3, 3) /\ end = Pt(3, 3)
    /\ dist = R(5)
    /\ perp = R(1)
    /\ ret = Pt(3, 3)

\* the projection fraction of point onto the receiver, for a segment that
\* has a length
Fraction ==
    Div(Dot(PointSub(point, start), PointSub(end, start)),
        Dot(PointSub(end, start), PointSub(end, start)))

FractionInside == ~Degenerate /\ Ge(Fraction, Zero) /\ Le(Fraction, One)

SquaredDistance(a, b) == Dot(PointSub(a, b), PointSub(a, b))

\* C9: getDistanceFromPoint gives start + t * (end - start) when the
\* projection fraction t is in [0, 1], and otherwise (or for a zero-length
\* segment) the end point nearer to p; the distance returned is the
\* distance from p to that point.  (0,0)-(10,0), p = (5,5): 5 and (5,0).
C9_DistanceAndNearestPoint ==
    op = "getDistanceFromPoint" =>
        /\ FractionInside =>
              out = PointAdd(start, PointMul(PointSub(end, start), Fraction))
        /\ ~FractionInside =>
              /\ out \in {start, end}
              /\ Le(SquaredDistance(point, out), SquaredDistance(point, start))
              /\ Le(SquaredDistance(point, out), SquaredDistance(point, end))
        /\ ret = Root(SquaredDistance(point, out))

C9_Witness ==
    /\ op = "getDistanceFromPoint"
    /\ start = Pt(0, 0) /\ end = Pt(10, 0)
    /\ point = Pt(5, 5)
    /\ ret = Root(R(25))
    /\ out = Pt(5, 0)

\* C10: findNearestProportionalPositionTo returns a value in [0, 1] for
\* every segment and point, and 0 for every point when the segment has no
\* length.
C10_ProportionClamped ==
    op = "findNearestProportionalPositionTo" =>
        /\ Ge(ret, Zero)
        /\ Le(ret, One)
        /\ Degenerate => ret = Zero

C10_Witness ==
    /\ op = "findNearestProportionalPositionTo"
    /\ ~Degenerate
    /\ Gt(Fraction, One)
    /\ ret = One

\* C11: findNearestPointTo is the point at the clamped proportion; when
\* the projection falls outside the segment it is the end point nearer to
\* the point, and it is the nearest point getDistanceFromPoint reports.
C11_NearestPoint ==
    op = "findNearestPointTo" =>
        /\ ret = getPointAlongLineProportionally(
                     start, end, findNearestProportionalPositionTo(start, end, point))
        /\ FractionInside =>
              ret = PointAdd(start, PointMul(PointSub(end, start), Fraction))
        /\ (~Degenerate /\ ~FractionInside) =>
              /\ ret \in {start, end}
              /\ Le(SquaredDistance(point, ret), SquaredDistance(point, start))
              /\ Le(SquaredDistance(point, ret), SquaredDistance(point, end))
        /\ ret = getDistanceFromPoint(start, end, point).pointOnLine

C11_Witness ==
    /\ op = "findNearestPointTo"
    /\ ~Degenerate
    /\ Gt(Fraction, One)
    /\ ret = end
    /\ Lt(SquaredDistance(point, end), SquaredDistance(point, start))

\* the length of the receiver, for the receivers that have a rational one
Length == RootValue(getLength(start, end))

\* x is the point a moved towards b by the distance m along a-b
MovedTowards(x, a, b, m) ==
    PointEq(PointMul(PointSub(x, a), Length), PointMul(PointSub(b, a), m))

\* C12: withShortenedStart(d) keeps end and moves start towards end by
\* min(d, length); withShortenedEnd(d) keeps start and moves end towards
\* start by min(d, length); for d >= length the result is the zero-length
\* segment at the end point that is kept.
C12_Shortened ==
    /\ op = "withShortenedStart" =>
          /\ PointEq(ret.end, end)
          /\ MovedTowards(ret.start, start, end, jmin(dist, Length))
          /\ Ge(dist, Length) => PointEq(ret.start, end)
    /\ op = "withShortenedEnd" =>
          /\ PointEq(ret.start, start)
          /\ MovedTowards(ret.end, end, start, jmin(dist, Length))
          /\ Ge(dist, Length) => PointEq(ret.end, start)

\* C13: for any segment withShortenedStart(0) is equal to the segment, and
\* withShortenedStart(length) has its start at the end of the segment and
\* the same end.
C13_ShortenedStartRoundTrip ==
    op = "withShortenedStart" =>
        /\ Eq(dist, Zero) => (PointEq(ret.start, start) /\ PointEq(ret.end, end))
        /\ Eq(dist, Length) => (PointEq(ret.start, end) /\ PointEq(ret.end, end))

\* C14: isPointAbove is false for every point when the segment is
\* vertical; otherwise it is true exactly when the point's y is strictly
\* less than the y of the infinite line at the point's x.
C14_PointAbove ==
    op = "isPointAbove" =>
        LET dx == Sub(end.x, start.x)
            dy == Sub(end.y, start.y)
        IN /\ Eq(dx, Zero) => ret = FALSE
           /\ ~Eq(dx, Zero) =>
                 ret = Lt(Mul(Sub(point.y, start.y), Mul(dx, dx)),
                          Mul(Mul(dy, Sub(point.x, start.x)), dx))

C14_Witness ==
    /\ op = "isPointAbove"
    /\ ~Eq(start.x, end.x)
    /\ ~Eq(start.y, end.y)
    /\ OnInfiniteLine(point, start, end)
    /\ ret = FALSE

\* C15: getPointAlongLineProportionally(0) is start, (1) is end, and for a
\* proportion t outside [0, 1] the point is start + t * (end - start).
C15_Proportion ==
    op = "getPointAlongLineProportionally" =>
        /\ dist = Zero => ret = start
        /\ dist = One => ret = end
        /\ PointEq(PointSub(ret, start), PointMul(PointSub(end, start), dist))

C15_Witness ==
    /\ op = "getPointAlongLineProportionally"
    /\ ~Degenerate
    /\ dist = Two
    /\ OnInfiniteLine(ret, start, end)
    /\ ~WithinEnds(ret, start, end)

\* C16: for a segment with a length, getDistanceFromPoint(start) is 0 with
\* nearest point start, and getDistanceFromPoint(end) is 0 with nearest
\* point end.
C16_EndPointsAtDistanceZero ==
    (op = "getDistanceFromPoint" /\ ~Degenerate) =>
        /\ point = start => (ret = Root(Zero) /\ out = start)
        /\ point = end => (ret = Root(Zero) /\ out = end)

C16_Witness ==
    /\ op = "getDistanceFromPoint"
    /\ ~Degenerate
    /\ point = end
    /\ ret = Root(Zero)
    /\ out = end

\* the member functions of Line that are not const
Mutators == {"setStart", "setEnd", "operator=", "applyTransform"}

\* what every call of the model does to the receiver: setStart replaces
\* start and keeps end, setEnd replaces end and keeps start, operator=
\* replaces both end points with those of the assigned segment,
\* applyTransform replaces both with their images under the transform, and
\* every query or derivation leaves both as they were.
FrameOfEveryCall ==
    [][/\ op' = "setStart" => (start' = point' /\ end' = end)
       /\ op' = "setEnd" => (end' = point' /\ start' = start)
       /\ op' = "operator=" => (start' = line'.start /\ end' = line'.end)
       /\ op' = "applyTransform" =>
             /\ start' = PointApplyTransform(start, transform')
             /\ end' = PointApplyTransform(end, transform')
       /\ op' \notin Mutators => (start' = start /\ end' = end)]_vars

\* C17: across any sequence of operations on a segment only the mutators
\* change it: setStart replaces start and leaves end unchanged, setEnd
\* replaces end and leaves start unchanged, and every other operation
\* leaves both end points of the receiver unchanged and returns new values
\* instead.  (The argument segment is passed by const reference: line holds
\* its value, which no call can change.)
C17_OnlyMutatorsChange ==
    [][/\ op' = "setStart" => (start' = point' /\ end' = end)
       /\ op' = "setEnd" => (end' = point' /\ start' = start)
       /\ op' \notin {"setStart", "setEnd"} => (start' = start /\ end' = end)]_vars

\* C18: after setSize(n, zero) the size is n, every byte below
\* min(old size, n) has the value it had, with zero and n > old size every
\* byte in [old size, n) is 0, setSize(0) frees the data, and setSize with
\* the current size changes nothing.  (A byte that had no storage before
\* the call had no value to keep.)
C18_SetSize ==
    call.op = "setSize" =>
        LET old == before[1]
            new == blocks[1]
            kept == IF old.size < call.n THEN old.size ELSE call.n
        IN /\ new.size = call.n
           /\ call.n > 0 => (~new.data.null /\ Len(new.data.mem) = call.n)
           /\ \A i \in 1 .. kept :
                 i <= Len(old.data.mem) => new.data.mem[i] = old.data.mem[i]
           /\ (call.zero /\ call.n > old.size) =>
                 \A i \in (old.size + 1) .. call.n : new.data.mem[i] = 0
           /\ call.n = 0 => new.data = hbNull
           /\ call.n = old.size => new = old

\* C19: whenever the divisor is 0 and p2 != p3, none of the four
\* axis-aligned cases is taken, and intersects returns false with the
\* point at the midpoint of p2 and p3: no parallel, collinear or
\* zero-length pair is reported as intersecting.
C19_ZeroDivisorNeverIntersects ==
    (op = "intersects" /\ ~PointEq(end, line.start) /\ Eq(Divisor, Zero)) =>
        /\ ~AxisAlignedCase
        /\ ret = FALSE
        /\ out = PointDiv(PointAdd(end, line.start), Two)

C19_Witness ==
    /\ op = "intersects"
    /\ Degenerate
    /\ ~Eq(line.start.y, line.end.y)
    /\ ~PointEq(end, line.start)
    /\ OnSegment(line.start, line.end, start)
    /\ ret = FALSE

\* C20: the assertion of the destructor, size == 0 || data != nullptr,
\* holds of every MemoryBlock object after any sequence of constructions,
\* copies, moves, assignments, setSize, ensureSize, append, removeSection
\* and swapWith, the object a move leaves behind included.
C20_DestructorAssertion ==
    \A o \in Objs : blocks[o].size = 0 \/ ~blocks[o].data.null

\* C21: copyFrom(src, offset, num) is clipped to the block for every
\* offset and num: it writes block[offset + i] := src[i] for exactly the i
\* in [0, num) with 0 <= offset + i < size, reads no byte outside the
\* source and writes none outside the block, and leaves the size and every
\* other byte as they were.
C21_CopyFromClipped ==
    call.op = "copyFrom" =>
        LET old == before[1]
            new == blocks[1]
        IN /\ ~fault
           /\ new.size = old.size
           /\ new.data.null = old.data.null
           /\ Len(new.data.mem) = Len(old.data.mem)
           /\ \A i \in 0 .. (Len(old.data.mem) - 1) :
                 new.data.mem[i + 1] =
                     IF call.n <= i /\ i < call.n + Len(call.src) /\ i < old.size
                     THEN call.src[i - call.n + 1]
                     ELSE old.data.mem[i + 1]

\* the indices of the bytes removeSection (startByte, num) is to remove
\* from a block of the given size
Removed(size, startByte, num) ==
    {i \in 0 .. (size - 1) : startByte <= i /\ i < startByte + num}

\* C22: removeSection(start, n) on a block of size s removes exactly the
\* bytes with an index in [start, start + n) below s: the other bytes keep
\* their values and their order, the new size is s minus the number of
\* bytes removed, and the size never grows.
C22_RemoveSection ==
    call.op = "removeSection" =>
        LET old == before[1]
            new == blocks[1]
            gone == Removed(old.size, call.n, call.num)
            kept == old.size - Cardinality(gone)
        IN /\ ~fault
           /\ new.size = kept
           /\ new.size <= old.size
           /\ \A i \in 0 .. (kept - 1) :
                 (i < Len(new.data.mem) /\ i + call.num < Len(old.data.mem)) =>
                     new.data.mem[i + 1] =
                         old.data.mem[(IF i < call.n THEN i ELSE i + call.num) + 1]

\* the values the scans are asked to look at
Scanned == {values[i] : i \in 1 .. numValues}

Greatest == IF numValues <= 0 THEN 0
            ELSE CHOOSE x \in Scanned : \A y \in Scanned : y <= x

Least == IF numValues <= 0 THEN 0
         ELSE CHOOSE x \in Scanned : \A y \in Scanned : x <= y

\* C25: for a non-empty array findMaximum returns the greatest of the
\* values and findMinimum the least, so that findMinAndMax gives lowest =
\* findMinimum and highest = findMaximum; for n <= 0 all of them return 0,
\* the default-constructed value.
C25_MinimumAndMaximum ==
    /\ found.minimum \subseteq {Least}
    /\ found.maximum \subseteq {Greatest}
    /\ found.lowest \subseteq {Least}
    /\ found.highest \subseteq {Greatest}
    /\ (found.minimum # {} /\ found.lowest # {}) => found.lowest = found.minimum
    /\ (found.maximum # {} /\ found.highest # {}) => found.highest = found.maximum

\* bit p of a block, for a bit of a byte that is allocated
blockBit(b, p) ==
    IF p \div 8 < Len(b.data.mem)
    THEN (b.data.mem[(p \div 8) + 1] \div Pow2(p % 8)) % 2
    ELSE Indeterminate

\* the number made by the bits k < n of v for which bit first + k is in a
\* block of the given size
RECURSIVE BitsInside(_, _, _, _)
BitsInside(v, first, n, size) ==
    IF n = 0 THEN 0
    ELSE BitsInside(v, first, n - 1, size)
             + (IF first + n - 1 < 8 * size THEN bitOf(v, n - 1) * Pow2(n - 1) ELSE 0)

\* C23: t.fromBase64Encoding(b.toBase64Encoding()) returns true and leaves
\* t equal to b, size and bytes, for every block b and every target t;
\* fromBase64Encoding of a string with no '.' returns false and leaves the
\* block as it was.
C23_Base64RoundTrip ==
    call.op = "fromBase64Encoding" =>
        /\ ~fault
        /\ call.roundTrip =>
              /\ call.ret = TRUE
              /\ blocks[1].size = blocks[2].size
              /\ bytesAt(blocks[1].data, blocks[1].size)
                     = bytesAt(blocks[2].data, blocks[2].size)
        /\ indexOfChar(call.s, ".") < 0 =>
              (call.ret = FALSE /\ blocks[1] = before[1])

\* C24: for 1 <= n <= 31, getBitRange(start, n) after setBitRange(start,
\* n, v) returns the low n bits of v that lie inside the block, and
\* setBitRange changes no bit outside [start, start + n), for every int v.
C24_BitRange ==
    /\ call.op = "setBitRange" =>
          /\ ~fault
          /\ blocks[1].size = before[1].size
          /\ \A p \in 0 .. (8 * before[1].size - 1) :
                (p < call.bitRangeStart \/ p >= call.bitRangeStart + call.n) =>
                    blockBit(blocks[1], p) = blockBit(before[1], p)
    /\ (call.op = "getBitRange" /\ call.written # {}) =>
          /\ ~fault
          /\ \A v \in call.written :
                call.ret = BitsInside(v, call.bitRangeStart, call.n, blocks[1].size)

=============================================================================
